---- MODULE Spec2Model ----
(***************************************************************************)
(* A model of useractivity.py: the memoised fetch (functools.lru_cache     *)
(* around fetch_github_activity), the formatter display_github_activity    *)
(* and the command loop of main().                                         *)
(*                                                                         *)
(* Three specifications share the variables:                               *)
(*   Spec         the command loop, the cache and the network;             *)
(*   SpecLRU      sessions of lookups long enough to overflow the cache;   *)
(*   SpecDisplay  display_github_activity as a function of its arguments.  *)
(*                                                                         *)
(* Text is modelled by TLA+ strings.  The source's emoji are written as    *)
(* short codes (":star:") because the module is ASCII.                     *)
(***************************************************************************)
EXTENDS Integers, Sequences, FiniteSets, TLC

VARIABLES
    pc,             \* main(): "prompt", "confirm", "done" or "crashed"
    cache,          \* lru_cache: <<entry>>, least recently used first
    netCalls,       \* number of calls of requests.get so far
    hits,           \* number of cache hits so far
    budget,         \* how many network calls, hits and failures the run may see
    failures,       \* number of fetches that ended without data so far
    history,        \* usernames looked up since the cache was last empty, oldest first
    last,           \* what the latest command did
    events,         \* display_github_activity: argument events
    filter_type,    \* display_github_activity: argument filter_type
    result,         \* display_github_activity: what the call did
    dpc             \* "call" before the call, "done" after it

vars == <<pc, cache, netCalls, hits, failures, budget, history, last,
          events, filter_type, result, dpc>>

mainVars == <<pc, cache, netCalls, hits, failures, budget, history, last>>
displayVars == <<events, filter_type, result, dpc>>

-----------------------------------------------------------------------------
(* Bounds of the model.                                                    *)

MaxLen == 3         \* SpecDisplay: longest mixed event list
MaxCount == 3       \* SpecDisplay: longest list of copies of one event
NumUsers == 11      \* distinct usernames
MaxNetCalls == 3    \* Spec: network calls in one run
MaxHits == 2        \* Spec: cache hits in one run
MaxFailures == 2    \* Spec: fetches without data in one run
LruNetCalls == 12   \* SpecLRU: network calls in one run
LruHits == 1        \* SpecLRU: cache hits in one run

-----------------------------------------------------------------------------
(* Python and JSON values.                                                 *)

PyNone == [tag |-> "none"]
Str(s) == [tag |-> "str", s |-> s]
Num(n) == [tag |-> "int", n |-> n]
Dict(d) == [tag |-> "dict", d |-> d]
List(l) == [tag |-> "list", l |-> l]

EmptyDict == Dict(<<>>)

IsDict(v) == v.tag = "dict"
IsStr(v) == v.tag = "str"

\* dict.get(k, default)
Get(v, k, default) == IF k \in DOMAIN v.d THEN v.d[k] ELSE default

\* truth value of an object
Truthy(v) ==
    CASE v.tag = "none" -> FALSE
      [] v.tag = "str" -> v.s # ""
      [] v.tag = "int" -> v.n # 0
      [] v.tag = "dict" -> DOMAIN v.d # {}
      [] v.tag = "list" -> v.l # <<>>

\* str(v) as an f-string interpolates it
PyStr(v) ==
    CASE v.tag = "none" -> "None"
      [] v.tag = "str" -> v.s
      [] v.tag = "int" -> ToString(v.n)
      [] OTHER -> "<object>"

-----------------------------------------------------------------------------
(* Strings.                                                                *)

UpperCase == <<"A", "B", "C", "D", "E", "F", "G", "H", "I", "J", "K", "L", "M",
               "N", "O", "P", "Q", "R", "S", "T", "U", "V", "W", "X", "Y", "Z">>
LowerCase == <<"a", "b", "c", "d", "e", "f", "g", "h", "i", "j", "k", "l", "m",
               "n", "o", "p", "q", "r", "s", "t", "u", "v", "w", "x", "y", "z">>

CharAt(s, i) == SubSeq(s, i, i)

LowerOf ==
    [c \in {UpperCase[i] : i \in 1..26} |->
         LowerCase[CHOOSE i \in 1..26 : UpperCase[i] = c]]

LowerChar(c) == IF c \in DOMAIN LowerOf THEN LowerOf[c] ELSE c

RECURSIVE Lower(_)
\* str.lower()
Lower(s) == IF s = "" THEN "" ELSE LowerChar(CharAt(s, 1)) \o Lower(Tail(s))

\* sub in s
Contains(s, sub) ==
    \E i \in 1..(Len(s) - Len(sub) + 1) : SubSeq(s, i, i + Len(sub) - 1) = sub

StartsWith(s, p) == Len(p) <= Len(s) /\ SubSeq(s, 1, Len(p)) = p
EndsWith(s, p) == Len(p) <= Len(s) /\ SubSeq(s, Len(s) - Len(p) + 1, Len(s)) = p

\* template.format(count) for a template with at most one "{}", as every
\* entry of event_icons is: the placeholder is replaced, and a template
\* without one ignores the argument.
Format(tpl, count) ==
    IF Contains(tpl, "{}")
    THEN LET i == CHOOSE j \in 1..(Len(tpl) - 1) : SubSeq(tpl, j, j + 1) = "{}"
         IN SubSeq(tpl, 1, i - 1) \o ToString(count) \o SubSeq(tpl, i + 2, Len(tpl))
    ELSE tpl

-----------------------------------------------------------------------------
(* display_github_activity: the timestamp of the first event.              *)

Digits == <<"0", "1", "2", "3", "4", "5", "6", "7", "8", "9">>
MonthAbbr == <<"Jan", "Feb", "Mar", "Apr", "May", "Jun",
               "Jul", "Aug", "Sep", "Oct", "Nov", "Dec">>

DigitValue == [c \in {Digits[i] : i \in 1..10} |-> (CHOOSE i \in 1..10 : Digits[i] = c) - 1]

IsDigit(c) == c \in DOMAIN DigitValue
DigitVal(c) == DigitValue[c]
AllDigits(s) == \A i \in 1..Len(s) : IsDigit(CharAt(s, i))
TwoDigitVal(s) == 10 * DigitVal(CharAt(s, 1)) + DigitVal(CharAt(s, 2))

\* Whether datetime.strptime(s, "%Y-%m-%dT%H:%M:%SZ") accepts s, for stamps in
\* the zero-padded form the API sends.
MatchesFormat(s) ==
    /\ Len(s) = 20
    /\ AllDigits(SubSeq(s, 1, 4)) /\ CharAt(s, 5) = "-"
    /\ AllDigits(SubSeq(s, 6, 7)) /\ CharAt(s, 8) = "-"
    /\ AllDigits(SubSeq(s, 9, 10)) /\ CharAt(s, 11) = "T"
    /\ AllDigits(SubSeq(s, 12, 13)) /\ CharAt(s, 14) = ":"
    /\ AllDigits(SubSeq(s, 15, 16)) /\ CharAt(s, 17) = ":"
    /\ AllDigits(SubSeq(s, 18, 19)) /\ CharAt(s, 20) = "Z"
    /\ TwoDigitVal(SubSeq(s, 6, 7)) \in 1..12
    /\ TwoDigitVal(SubSeq(s, 9, 10)) \in 1..31
    /\ TwoDigitVal(SubSeq(s, 12, 13)) \in 0..23
    /\ TwoDigitVal(SubSeq(s, 15, 16)) \in 0..59
    /\ TwoDigitVal(SubSeq(s, 18, 19)) \in 0..61

\* strftime("%d %b %Y, %H:%M %Z") of the parsed time; the host's zone is UTC.
Strftime(s) ==
    SubSeq(s, 9, 10) \o " " \o MonthAbbr[TwoDigitVal(SubSeq(s, 6, 7))] \o " "
        \o SubSeq(s, 1, 4) \o ", " \o SubSeq(s, 12, 16) \o " UTC"

NoExc == [type |-> "none", arg |-> ""]
Raise(type, arg) == [type |-> type, arg |-> arg]

\* Lines 81-85: the exception raised, or the text bound to last_active.
ParseLastActive(evs) ==
    IF "created_at" \notin DOMAIN evs[1].d
    THEN [exc |-> Raise("KeyError", "'created_at'"), value |-> PyNone]
    ELSE LET c == evs[1].d["created_at"] IN
         IF ~IsStr(c)
         THEN [exc |-> Raise("TypeError",
                             "strptime() argument 1 must be str, not " \o PyStr(c)),
               value |-> PyNone]
         ELSE IF ~MatchesFormat(c.s)
         THEN [exc |-> Raise("ValueError",
                             "time data '" \o c.s
                                 \o "' does not match format '%Y-%m-%dT%H:%M:%SZ'"),
               value |-> PyNone]
         ELSE [exc |-> NoExc, value |-> Str(Strftime(c.s))]

-----------------------------------------------------------------------------
(* display_github_activity: the loop over the events.                      *)

\* grouped_events: <<[repo, kinds: <<[type, count]>>]>>, in insertion order.
RepoIndex(grouped, repo) ==
    IF \E i \in 1..Len(grouped) : grouped[i].repo = repo
    THEN CHOOSE i \in 1..Len(grouped) : grouped[i].repo = repo
    ELSE 0

KindIndex(kinds, type) ==
    IF \E i \in 1..Len(kinds) : kinds[i].type = type
    THEN CHOOSE i \in 1..Len(kinds) : kinds[i].type = type
    ELSE 0

IncKind(kinds, type) ==
    LET k == KindIndex(kinds, type) IN
    IF k = 0 THEN Append(kinds, [type |-> type, count |-> 1])
    ELSE [kinds EXCEPT ![k].count = @ + 1]

\* Mutant of Increment: a repository seen for the first time goes to the front.
IncrementNewFirst(grouped, repo, type) ==
    LET r == RepoIndex(grouped, repo) IN
    IF r = 0
    THEN <<[repo |-> repo, kinds |-> IncKind(<<>>, type)]>> \o grouped
    ELSE [grouped EXCEPT ![r].kinds = IncKind(@, type)]

\* grouped_events[repo_name][event_type] += 1
Increment(grouped, repo, type) ==
    LET r == RepoIndex(grouped, repo) IN
    IF r = 0
    THEN Append(grouped, [repo |-> repo, kinds |-> IncKind(<<>>, type)])
    ELSE [grouped EXCEPT ![r].kinds = IncKind(@, type)]

AttrError(v, attr) ==
    Raise("AttributeError",
          "'" \o (IF v.tag = "none" THEN "NoneType" ELSE v.tag)
              \o "' object has no attribute '" \o attr \o "'")

\* Lines 88-102: one pass of the loop body on the state st of the try block.
ProcessEvent(st, event, f) ==
    LET event_type == Get(event, "type", Str("UnknownEvent"))
        repo == Get(event, "repo", EmptyDict)
    IN
    IF ~IsDict(repo) THEN [st EXCEPT !.exc = AttrError(repo, "get")]
    ELSE
    LET repo_name == Get(repo, "name", Str("UnknownRepo")) IN
    IF Truthy(f) /\ ~IsStr(event_type)
    THEN [st EXCEPT !.exc = AttrError(event_type, "lower")]
    ELSE IF Truthy(f) /\ ~Contains(Lower(event_type.s), Lower(f.s))
    THEN st
    ELSE IF event_type = Str("WatchEvent")
    THEN [st EXCEPT !.messages = Append(@, ":star: Starred " \o PyStr(repo_name))]
    ELSE IF event_type = Str("ForkEvent")
    THEN [st EXCEPT !.messages =
              Append(@, ":fork_and_knife: Forked " \o PyStr(repo_name))]
    ELSE IF event_type = Str("CreateEvent") /\ ~IsDict(Get(event, "payload", EmptyDict))
    THEN [st EXCEPT !.exc = AttrError(Get(event, "payload", EmptyDict), "get")]
    ELSE IF /\ event_type = Str("CreateEvent")
            /\ Get(Get(event, "payload", EmptyDict), "ref_type", Str("UnknownRefType"))
                   = Str("repository")
    THEN [st EXCEPT !.messages =
              Append(@, ":file_folder: Created a repository " \o PyStr(repo_name))]
    ELSE [st EXCEPT !.grouped = Increment(@, repo_name, event_type)]

RECURSIVE Loop(_, _, _, _)
\* Line 87: for event in events, left when the body raises.
Loop(st, evs, i, f) ==
    IF i > Len(evs) \/ st.exc.type # "none" THEN st
    ELSE Loop(ProcessEvent(st, evs[i], f), evs, i + 1, f)

\* Lines 80-107: the try block and its handlers.
TryBlock(evs, f) ==
    LET parsed == ParseLastActive(evs)
        st0 == [messages |-> <<>>, grouped |-> <<>>, exc |-> parsed.exc,
                bound |-> parsed.exc.type = "none", last_active |-> parsed.value]
        st == Loop(st0, evs, 1, f)
    IN
    IF st.exc.type = "none" THEN st
    ELSE IF st.exc.type = "KeyError"
    THEN [st EXCEPT !.messages =
              Append(@, "[bold red]:x: [Error][/] Missing expected key in response: "
                            \o st.exc.arg)]
    ELSE [st EXCEPT !.messages =
              Append(@, "[bold red]:x: [Error][/] processing an event: " \o st.exc.arg)]

-----------------------------------------------------------------------------
(* display_github_activity: rendering the grouped counts.                  *)

\* event_icons
event_icons ==
    [CommitCommentEvent |-> ":speech_balloon: Commented on a commit",
     DeleteEvent |-> ":wastebasket: Deleted {} branch",
     IssueCommentEvent |-> ":speech_balloon: Commented on {} issue",
     IssuesEvent |-> ":hammer_and_wrench: Opened {} new issue",
     MemberEvent |-> ":busts_in_silhouette: Added {} new member",
     PullRequestEvent |-> ":arrows_clockwise: Opened {} pull request",
     PullRequestReviewEvent |-> ":mag: Reviewed {} pull request",
     PullRequestReviewCommentEvent |-> ":speech_balloon: Commented on {} pull request review",
     PullRequestReviewThreadEvent |-> ":speech_balloon: Started a thread in a pull request review",
     PushEvent |-> ":arrow_up:  Pushed {} commit"]

InIcons(type) == IsStr(type) /\ type.s \in DOMAIN event_icons

\* Mutant of plural_suffix: "s" for every kind.
plural_suffix_always_s(event_type, count) == IF count > 1 THEN "s" ELSE ""

\* Line 125
plural_suffix(event_type, count) ==
    IF count > 1 /\ event_type = Str("DeleteEvent") THEN "es"
    ELSE IF count > 1 THEN "s"
    ELSE ""

\* Lines 125-127: the message of one recognised (repo, kind, count).
GroupedMessage(repo, event_type, count) ==
    Format(event_icons[event_type.s], count) \o plural_suffix(event_type, count)
        \o " to " \o PyStr(repo)

RECURSIVE RenderKinds(_, _, _)
\* Lines 123-127
RenderKinds(repo, kinds, i) ==
    IF i > Len(kinds) THEN <<>>
    ELSE (IF InIcons(kinds[i].type)
          THEN <<GroupedMessage(repo, kinds[i].type, kinds[i].count)>>
          ELSE <<>>) \o RenderKinds(repo, kinds, i + 1)

RECURSIVE RenderGrouped(_, _)
\* Lines 122-127
RenderGrouped(grouped, i) ==
    IF i > Len(grouped) THEN <<>>
    ELSE RenderKinds(grouped[i].repo, grouped[i].kinds, 1) \o RenderGrouped(grouped, i + 1)

-----------------------------------------------------------------------------
(* display_github_activity as a whole.                                     *)

Returned(last_active, messages) ==
    [raised |-> "none", last_active |-> last_active, messages |-> messages]
Raised(type) == [raised |-> type, last_active |-> PyNone, messages |-> <<>>]

\* events is the sequence of the fetched list; filter_type is None or a string.
display_github_activity(evs, f) ==
    IF evs = <<>>
    THEN Returned(PyNone, <<"[yellow]No recent activity to display.[/]">>)
    ELSE IF ~IsDict(Get(evs[1], "actor", Str("")))
    THEN Raised("AttributeError")
    ELSE LET st == TryBlock(evs, f)
             messages == st.messages \o RenderGrouped(st.grouped, 1)
         IN IF st.bound THEN Returned(st.last_active, messages)
            ELSE Raised("UnboundLocalError")

-----------------------------------------------------------------------------
(* Event records the API can send, and the lists drawn from them.          *)

Actor == Dict([login |-> Str("mia")])
Stamp == Str("2024-03-05T14:07:09Z")
RepoAB == Dict([name |-> Str("a/b")])
RepoXY == Dict([name |-> Str("x/y")])
Repos == {RepoAB, RepoXY}

\* A complete record of the given kind on the given repository.
Event(type, repo) ==
    Dict([actor |-> Actor, created_at |-> Stamp, type |-> Str(type), repo |-> repo,
          payload |-> EmptyDict])

RecognisedKinds == DOMAIN event_icons
SpecialKinds == {"WatchEvent", "ForkEvent"}
OtherKinds == {"CreateEvent", "GollumEvent"}
AllKinds == RecognisedKinds \cup SpecialKinds \cup OtherKinds

PushAB == Event("PushEvent", RepoAB)
DeleteAB == Event("DeleteEvent", RepoAB)
IssuesXY == Event("IssuesEvent", RepoXY)
WatchXY == Event("WatchEvent", RepoXY)
CreateRepoXY ==
    Dict([actor |-> Actor, created_at |-> Stamp, type |-> Str("CreateEvent"),
          repo |-> RepoXY, payload |-> Dict([ref_type |-> Str("repository")])])
CreateBranchAB ==
    Dict([actor |-> Actor, created_at |-> Stamp, type |-> Str("CreateEvent"),
          repo |-> RepoAB, payload |-> Dict([ref_type |-> Str("branch")])])
\* no "type"
NoTypeAB == Dict([actor |-> Actor, created_at |-> Stamp, repo |-> RepoAB])
\* only type, repo and payload
BarePushAB ==
    Dict([type |-> Str("PushEvent"), repo |-> RepoAB, payload |-> Dict([size |-> Num(3)])])
\* no "created_at"
NoStampPushAB == Dict([actor |-> Actor, type |-> Str("PushEvent"), repo |-> RepoAB])
\* a timestamp strptime rejects
BadStampForkAB ==
    Dict([actor |-> Actor, created_at |-> Str("yesterday"), type |-> Str("ForkEvent"),
          repo |-> RepoAB])
\* "repo": null
NullRepoPush ==
    Dict([actor |-> Actor, created_at |-> Stamp, type |-> Str("PushEvent"),
          repo |-> PyNone])

EventPool ==
    {PushAB, DeleteAB, IssuesXY, WatchXY, CreateRepoXY, CreateBranchAB, NoTypeAB,
     BarePushAB, NoStampPushAB, BadStampForkAB, NullRepoPush}

Filters == {PyNone, Str("PUSH"), Str("Event"), Str("zzz")}

MixedLists == UNION {[1..n -> EventPool] : n \in 0..MaxLen}
UniformLists ==
    {[i \in 1..n |-> Event(k, r)] : n \in 1..MaxCount, k \in AllKinds, r \in Repos}

-----------------------------------------------------------------------------
(* The command loop's state before the first command, and the formatter's  *)
(* state while no call is observed.                                        *)

\* last: the latest lookup since the cache was last cleared.
NoLookup == [user |-> 0, outcome |-> "none", net |-> FALSE, value |-> PyNone,
             display |-> "none"]
NoResult == [raised |-> "none", last_active |-> PyNone, messages |-> <<>>]

NoBudget == [calls |-> 0, hits |-> 0, failures |-> 0]

MainInit ==
    /\ pc = "prompt"
    /\ cache = <<>>
    /\ netCalls = 0
    /\ hits = 0
    /\ failures = 0
    /\ history = <<>>
    /\ last = NoLookup

DisplayIdle ==
    /\ events = <<>>
    /\ filter_type = PyNone
    /\ result = NoResult
    /\ dpc = "idle"

-----------------------------------------------------------------------------
(* SpecDisplay: one call of display_github_activity.                       *)

DisplayInit ==
    /\ MainInit
    /\ budget = NoBudget
    /\ events \in MixedLists \cup UniformLists
    /\ filter_type \in Filters
    /\ result = NoResult
    /\ dpc = "call"

CallDisplay ==
    /\ dpc = "call"
    /\ result' = display_github_activity(events, filter_type)
    /\ dpc' = "done"
    /\ UNCHANGED <<events, filter_type>>
    /\ UNCHANGED mainVars

DisplayNext == CallDisplay

SpecDisplay == DisplayInit /\ [][DisplayNext]_vars

-----------------------------------------------------------------------------
(* fetch_github_activity and the lru_cache around it.                      *)

\* @lru_cache(maxsize=10)
maxsize == 10

ErrorKinds ==
    {"ConnectionError", "Timeout", "HTTP404", "HTTP403", "HTTP500",
     "JSONDecodeError", "RequestException", "Exception"}

\* What requests.get and response.json() can do for one request.
Failure(kind) == [kind |-> kind, body |-> PyNone]
Body(evs) == [kind |-> "ok", body |-> List(evs)]
Responses ==
    {Failure(k) : k \in ErrorKinds}
        \cup {Body(<<>>), Body(<<PushAB>>), Body(<<BarePushAB>>), Body(<<NoStampPushAB>>)}

\* Lines 21-64: the value the function body returns; every exception is
\* handled inside it and the handlers fall off the end of the function.
fetch_github_activity(resp) ==
    IF resp.kind = "ok"
    THEN IF ~Truthy(resp.body) THEN PyNone ELSE resp.body
    ELSE PyNone

CacheIndex(c, u) ==
    IF \E i \in 1..Len(c) : c[i].user = u
    THEN CHOOSE i \in 1..Len(c) : c[i].user = u
    ELSE 0

Remove(c, i) == SubSeq(c, 1, i - 1) \o SubSeq(c, i + 1, Len(c))

\* Mutant of Touch: a hit leaves the order alone (first in, first out).
TouchKeepsPlace(c, i) == c

\* A hit: the entry becomes the most recently used.
Touch(c, i) == Append(Remove(c, i), c[i])

\* Mutant of Store: only data is stored, None is not.
StoreOnlyData(c, u, v) ==
    IF ~Truthy(v) THEN c
    ELSE IF Len(c) >= maxsize THEN Append(Tail(c), [user |-> u, value |-> v])
    ELSE Append(c, [user |-> u, value |-> v])

\* A miss: the returned value is stored, whatever it is; a full cache drops
\* its least recently used entry.
Store(c, u, v) ==
    LET e == [user |-> u, value |-> v] IN
    IF Len(c) >= maxsize THEN Append(Tail(c), e) ELSE Append(c, e)

\* The decorated function: line 16 around lines 17-64.
cached_fetch(c, u, resp) ==
    LET i == CacheIndex(c, u) IN
    IF i # 0
    THEN [hit |-> TRUE, value |-> c[i].value, cache |-> Touch(c, i)]
    ELSE LET v == fetch_github_activity(resp)
         IN [hit |-> FALSE, value |-> v, cache |-> Store(c, u, v)]

CachedUsers == {cache[i].user : i \in 1..Len(cache)}

-----------------------------------------------------------------------------
(* main().  A username that was not looked up since the cache was last     *)
(* empty is as good as any other such username: the lowest one is typed.   *)

MainFilters == {PyNone, Str("PUSH")}

Known == {history[i] : i \in 1..Len(history)}
Fresh == {u \in 1..NumUsers : u \notin Known /\ \A v \in 1..(u - 1) : v \in Known}
Typed == Known \cup Fresh

\* Lines 142-146: "exit" asks for confirmation.
CmdExit ==
    /\ pc = "prompt"
    /\ pc' = "confirm"
    /\ UNCHANGED <<cache, netCalls, hits, failures, budget, history, last>>
    /\ UNCHANGED displayVars

\* Lines 144-145: "y" leaves the loop.
ConfirmYes ==
    /\ pc = "confirm"
    /\ pc' = "done"
    /\ UNCHANGED <<cache, netCalls, hits, failures, budget, history, last>>
    /\ UNCHANGED displayVars

\* Line 146: any other answer goes back to the prompt.
ConfirmNo ==
    /\ pc = "confirm"
    /\ pc' = "prompt"
    /\ UNCHANGED <<cache, netCalls, hits, failures, budget, history, last>>
    /\ UNCHANGED displayVars

\* Lines 148-154: prints the commands.
CmdHelp ==
    /\ pc = "prompt"
    /\ UNCHANGED mainVars
    /\ UNCHANGED displayVars

\* Lines 156-159
CmdClearCache ==
    /\ pc = "prompt"
    /\ cache' = <<>>
    /\ history' = <<>>
    /\ last' = NoLookup
    /\ UNCHANGED <<pc, netCalls, hits, failures, budget>>
    /\ UNCHANGED displayVars

\* Lines 175-176: prints nothing.
CmdEmpty ==
    /\ pc = "prompt"
    /\ UNCHANGED mainVars
    /\ UNCHANGED displayVars

\* Lines 178-179: prints the diagnostic.
CmdInvalid ==
    /\ pc = "prompt"
    /\ UNCHANGED mainVars
    /\ UNCHANGED displayVars

\* Lines 165-174: github-activity <username> [<event-type>], with the
\* response the network gives if it is asked.
GithubActivity(u, f, resp) ==
    LET got == cached_fetch(cache, u, resp)
        empty == ~Truthy(got.value)
        shown == IF empty THEN NoResult ELSE display_github_activity(got.value.l, f)
    IN
    /\ pc = "prompt"
    /\ cache' = got.cache
    /\ hits' = IF got.hit THEN hits + 1 ELSE hits
    /\ netCalls' = IF got.hit THEN netCalls ELSE netCalls + 1
    /\ failures' = IF ~got.hit /\ empty THEN failures + 1 ELSE failures
    /\ history' = Append(history, u)
    /\ pc' = IF shown.raised = "none" THEN "prompt" ELSE "crashed"
    /\ last' = [user |-> u, outcome |-> IF got.hit THEN "hit" ELSE resp.kind,
                net |-> ~got.hit, value |-> got.value,
                display |-> IF empty THEN "none"
                            ELSE IF shown.raised = "none" THEN "returned"
                            ELSE shown.raised]
    /\ UNCHANGED budget
    /\ UNCHANGED displayVars

\* The username is cached: the network is not asked, and the response
\* handed to GithubActivity is not looked at.
LookupHit ==
    /\ hits < budget.hits
    /\ \E u \in Typed \cap CachedUsers, f \in MainFilters :
           GithubActivity(u, f, Failure("Exception"))

\* The username is not cached: the network answers.
LookupMiss ==
    /\ netCalls < budget.calls
    /\ \E u \in Typed \ CachedUsers, f \in MainFilters, resp \in Responses :
           /\ ~Truthy(fetch_github_activity(resp)) => failures < budget.failures
           /\ GithubActivity(u, f, resp)

Next ==
    \/ CmdExit
    \/ ConfirmYes
    \/ ConfirmNo
    \/ CmdHelp
    \/ CmdClearCache
    \/ CmdEmpty
    \/ CmdInvalid
    \/ LookupHit
    \/ LookupMiss

\* Spec: every command and every response, few lookups.
Init ==
    /\ MainInit /\ DisplayIdle
    /\ budget = [calls |-> MaxNetCalls, hits |-> MaxHits, failures |-> MaxFailures]

Spec == Init /\ [][Next]_vars

\* SpecLRU: a session of lookups, enough of them to fill the cache and
\* overflow it, the network always answering with data.
InitLRU ==
    /\ MainInit /\ DisplayIdle
    /\ budget = [calls |-> LruNetCalls, hits |-> LruHits, failures |-> 0]

NextLRU ==
    \/ LookupHit
    \/ LookupMiss

SpecLRU == InitLRU /\ [][NextLRU]_vars

-----------------------------------------------------------------------------
(* What the claims speak of, said without the formatter's own steps.       *)

Header(e) ==
    /\ IsDict(Get(e, "actor", Str("")))
    /\ "created_at" \in DOMAIN e.d
    /\ IsStr(e.d["created_at"])
    /\ MatchesFormat(e.d["created_at"].s)

KindOf(e) == Get(e, "type", Str("UnknownEvent"))
RepoOf(e) == Get(Get(e, "repo", EmptyDict), "name", Str("UnknownRepo"))

\* The event's kind contains the filter, letter case aside.
Matches(e, f) ==
    ~Truthy(f) \/ (IsStr(KindOf(e)) /\ Contains(Lower(KindOf(e).s), Lower(f.s)))

\* The record makes the loop body raise.
Malformed(e, f) ==
    \/ ~IsDict(Get(e, "repo", EmptyDict))
    \/ Truthy(f) /\ ~IsStr(KindOf(e))
    \/ /\ KindOf(e) = Str("CreateEvent")
       /\ Matches(e, f)
       /\ ~IsDict(Get(e, "payload", EmptyDict))

IsSpecialEvent(e) ==
    \/ KindOf(e) \in {Str("WatchEvent"), Str("ForkEvent")}
    \/ /\ KindOf(e) = Str("CreateEvent")
       /\ Get(Get(e, "payload", EmptyDict), "ref_type", PyNone) = Str("repository")

SpecialText(e) ==
    (CASE KindOf(e) = Str("WatchEvent") -> ":star: Starred "
       [] KindOf(e) = Str("ForkEvent") -> ":fork_and_knife: Forked "
       [] OTHER -> ":file_folder: Created a repository ") \o RepoOf(e).s

IsDiagnostic(m) == StartsWith(m, "[bold red]")
IsSpecialMessage(m) ==
    \/ StartsWith(m, ":star: Starred ")
    \/ StartsWith(m, ":fork_and_knife: Forked ")
    \/ StartsWith(m, ":file_folder: Created a repository ")
IsGroupedMessage(m) == ~IsDiagnostic(m) /\ ~IsSpecialMessage(m)

\* The events the pass reaches: those before the first malformed record.
Reached(evs, f) == {i \in 1..Len(evs) : \A j \in 1..i : ~Malformed(evs[j], f)}
\* The reached events that pass the filter.
Kept(evs, f) == {i \in Reached(evs, f) : Matches(evs[i], f)}
KeptSpecial(evs, f) == {i \in Kept(evs, f) : IsSpecialEvent(evs[i])}
KeptCounted(evs, f) == {i \in Kept(evs, f) : ~IsSpecialEvent(evs[i])}

\* The (repository, kind) pairs of the counted events C, and their events.
Keys(evs, C) == {<<RepoOf(evs[i]), KindOf(evs[i])>> : i \in C}
Occurrences(evs, C, key) ==
    {i \in C : RepoOf(evs[i]) = key[1] /\ KindOf(evs[i]) = key[2]}
ShownKeys(evs, C) == {key \in Keys(evs, C) : InIcons(key[2])}

Least(S) == CHOOSE i \in S : \A j \in S : i <= j
FirstOfRepo(evs, C, repo) == Least({i \in C : RepoOf(evs[i]) = repo})
FirstOfKey(evs, C, key) == Least(Occurrences(evs, C, key))

\* key1 is seen before key2: its repository first, then its kind within it.
SeenBefore(evs, C, key1, key2) ==
    \/ FirstOfRepo(evs, C, key1[1]) < FirstOfRepo(evs, C, key2[1])
    \/ key1[1] = key2[1] /\ FirstOfKey(evs, C, key1) < FirstOfKey(evs, C, key2)

\* The text of a grouped message as section 4.3 words it.
Rendered(key, n) ==
    Format(event_icons[key[2].s], n)
        \o (IF n = 1 THEN "" ELSE IF key[2] = Str("DeleteEvent") THEN "es" ELSE "s")
        \o " to " \o key[1].s

Positions(msgs, P(_)) == {i \in 1..Len(msgs) : P(msgs[i])}

RECURSIVE Ascending(_)
\* The members of a set of numbers, lowest first.
Ascending(S) == IF S = {} THEN <<>> ELSE <<Least(S)>> \o Ascending(S \ {Least(S)})

done == dpc = "done" /\ events # <<>>
returned == done /\ result.raised = "none"

NonDiagnostic(msgs) == SelectSeq(msgs, LAMBDA m : ~IsDiagnostic(m))
Without(evs, j) == SubSeq(evs, 1, j - 1) \o SubSeq(evs, j + 1, Len(evs))
WithStamp(e) ==
    Dict([k \in DOMAIN e.d \cup {"created_at"} |->
              IF k = "created_at" THEN Stamp ELSE e.d[k]])

-----------------------------------------------------------------------------
(* The cache and the command loop.                                         *)

\* C1: a lookup that ends in an error outcome leaves no cache entry for the
\* username, so that the next lookup of it asks the network again.
C1_ErrorsNotCached ==
    (last.net /\ last.outcome \in ErrorKinds) => last.user \notin CachedUsers

\* C2: whatever is typed and whatever list is fetched, the loop is back at
\* the prompt (or asking to confirm "exit"); the process ends only after
\* "exit" confirmed with "y".
C2_LoopSurvives == pc \in {"prompt", "confirm", "done"}

\* u was looked up in h, and fewer than maxsize other usernames since.
Retained(h, u) ==
    \E i \in 1..Len(h) :
        /\ h[i] = u
        /\ Cardinality({h[j] : j \in (i + 1)..Len(h)} \ {u}) < maxsize

\* C3: the cache holds at most 10 usernames, and after every lookup exactly
\* the usernames among the 10 most recently looked up; the lookup asked the
\* network exactly if its username was not among them before.  So the
\* eleventh distinct username evicts the least recently looked up one and
\* spares one that was looked up again.
C3_LruEviction ==
    [][history' = Append(history, last'.user) =>
          /\ Len(cache') <= maxsize
          /\ Cardinality(CachedUsers') = Len(cache')
          /\ CachedUsers' = {u \in Known' : Retained(history', u)}
          /\ last'.net = ~Retained(history, last'.user)
          /\ netCalls' = IF Retained(history, last'.user) THEN netCalls
                         ELSE netCalls + 1]_vars

\* Ten usernames fill the cache, the first is looked up again, the eleventh
\* evicts the second, and the second is fetched from the network anew.
C3_Witness ==
    /\ history = <<1, 2, 3, 4, 5, 6, 7, 8, 9, 10, 1, 11, 2>>
    /\ last.user = 2 /\ last.net
    /\ 1 \in CachedUsers /\ 3 \notin CachedUsers
    /\ Len(cache) = maxsize

\* C4: a lookup of the username of the lookup before it, with no clear-cache
\* in between, returns the same value and does not ask the network.
C4_Idempotent ==
    [][(history' = Append(history, last'.user) /\ last.user = last'.user) =>
          /\ last'.value = last.value
          /\ ~last'.net
          /\ netCalls' = netCalls]_vars

\* The same username twice in a row, the first lookup ending in an error.
C4_Witness ==
    /\ Len(history) >= 2
    /\ history[Len(history)] = history[Len(history) - 1]
    /\ netCalls = 1 /\ failures = 1 /\ hits >= 1
    /\ last.outcome = "hit" /\ last.value = PyNone

-----------------------------------------------------------------------------
(* display_github_activity.                                                *)

\* C5: for every non-empty list and filter the call returns, and its messages
\* account for all and only the events whose kind contains the filter: every
\* such event is reached, each special one has its message and each counted
\* (repository, kind) its count; nothing else is shown.
C5_FilterSemantics ==
    done =>
        LET m == result.messages
            f == filter_type
            C == KeptCounted(events, f)
            K == ShownKeys(events, C)
        IN /\ result.raised = "none"
           /\ \A i \in 1..Len(events) :
                  (~Malformed(events[i], f) /\ Matches(events[i], f))
                      => i \in Reached(events, f)
           /\ Cardinality(Positions(m, IsSpecialMessage))
                  = Cardinality(KeptSpecial(events, f))
           /\ Cardinality(Positions(m, IsGroupedMessage)) = Cardinality(K)
           /\ \A key \in K :
                  \E i \in 1..Len(m) :
                      m[i] = Rendered(key, Cardinality(Occurrences(events, C, key)))

\* C6: in a returned message list the special messages come before the
\* grouped ones, the special messages in the order of their events, the
\* grouped ones by first-seen repository and then first-seen kind within it.
C6_Ordering ==
    returned =>
        LET m == result.messages
            f == filter_type
            S == Ascending(Positions(m, IsSpecialMessage))
            G == Ascending(Positions(m, IsGroupedMessage))
            E == Ascending(KeptSpecial(events, f))
            C == KeptCounted(events, f)
            K == ShownKeys(events, C)
        IN /\ \A i \in 1..Len(S), j \in 1..Len(G) : S[i] < G[j]
           /\ Len(S) = Len(E)
           /\ \A i \in 1..Len(S) : m[S[i]] = SpecialText(events[E[i]])
           /\ Len(G) = Cardinality(K)
           /\ \A key \in K :
                  m[G[1 + Cardinality({k \in K : SeenBefore(events, C, k, key)})]]
                      = Rendered(key, Cardinality(Occurrences(events, C, key)))

\* A counted event, then a special one, and two repositories counted.
C6_Witness ==
    /\ returned
    /\ events = <<PushAB, WatchXY, IssuesXY>>
    /\ filter_type = PyNone
    /\ Len(result.messages) = 3
    /\ IsSpecialMessage(result.messages[1])

\* C7: the list of the single record {type: PushEvent, repo: a/b,
\* payload.size: 3} yields the message "Pushed 3 commits to a/b".
C7_PushExample ==
    (done /\ events = <<BarePushAB>> /\ filter_type = PyNone) =>
        /\ result.raised = "none"
        /\ \E i \in 1..Len(result.messages) :
               EndsWith(result.messages[i], "Pushed 3 commits to a/b")

\* C8: a recognised kind counted once on a repository has its message with
\* no plural suffix; counted more than once, the text before " to <repo>"
\* ends in "es" for DeleteEvent and in "s" for every other recognised kind;
\* a kind outside the table has no message.
C8_Plural ==
    returned =>
        LET m == result.messages
            G == Positions(m, IsGroupedMessage)
            C == KeptCounted(events, filter_type)
            K == ShownKeys(events, C)
        IN /\ Cardinality(G) = Cardinality(K)
           /\ \A key \in K :
                  LET n == Cardinality(Occurrences(events, C, key))
                      tail == " to " \o key[1].s
                      text == Format(event_icons[key[2].s], n)
                  IN \E i \in G :
                         /\ EndsWith(m[i], tail)
                         /\ LET before == SubSeq(m[i], 1, Len(m[i]) - Len(tail)) IN
                            IF n = 1 THEN before = text
                            ELSE IF key[2] = Str("DeleteEvent")
                            THEN before = text \o "es" /\ EndsWith(before, "es")
                            ELSE before = text \o "s" /\ EndsWith(before, "s")

\* Two deletions on one repository.
C8_Witness ==
    /\ returned
    /\ events = <<DeleteAB, DeleteAB>>
    /\ result.messages = <<":wastebasket: Deleted 2 branches to a/b">>

\* C9: one malformed record among records that are otherwise in order costs
\* one diagnostic message, and the other events are shown as if it were not
\* in the list.
C9_PerEventRecovery ==
    (/\ done /\ Len(events) >= 2
     /\ \A i \in 1..Len(events) : Header(events[i])
     /\ Cardinality({j \in 1..Len(events) : Malformed(events[j], filter_type)}) = 1) =>
        LET j == CHOOSE j \in 1..Len(events) : Malformed(events[j], filter_type) IN
        /\ result.raised = "none"
        /\ Cardinality(Positions(result.messages, IsDiagnostic)) = 1
        /\ NonDiagnostic(result.messages)
               = display_github_activity(Without(events, j), filter_type).messages

\* C10: a first event whose timestamp is absent or unparseable costs one
\* diagnostic message; the events are aggregated all the same and the call
\* returns an absent last-active value with the messages.
C10_TimestampRecovery ==
    (/\ done
     /\ IsDict(Get(events[1], "actor", Str("")))
     /\ ~Header(events[1])) =>
        /\ result.raised = "none"
        /\ result.last_active = PyNone
        /\ Cardinality(Positions(result.messages, IsDiagnostic)) >= 1
        /\ NonDiagnostic(result.messages)
               = NonDiagnostic(
                     display_github_activity(
                         <<WithStamp(events[1])>> \o Tail(events), filter_type).messages)

====
